---- MODULE Spec2Model ----
(***************************************************************************)
(* Model of the streaming market-data endpoint of the gateway              *)
(* (routers/market_data.py, stream_market_data) and of the module-level    *)
(* registry active_subscriptions it keeps.                                 *)
(*                                                                         *)
(* The handlers are asyncio coroutines on one event loop: the code between *)
(* two awaits runs atomically, so every action below is one such segment.  *)
(* The Broker Session (ib) is seen through the calls the handler makes on  *)
(* it: reqMktData and cancelMktData are counted per symbol, and a ticker's *)
(* updateEvent is the set of on_update callbacks registered on it.         *)
(*                                                                         *)
(* The REST handlers get_historical_bars, get_market_data,                  *)
(* get_market_depth and get_realtime_bars (market_data.py), place_order,   *)
(* cancel_order and modify_order (trading.py), run_scanner (scanner.py),   *)
(* get_account_summary, get_account_values, get_pnl and get_single_pnl     *)
(* (account.py) and the PnL stream stream_pnl (account.py) have their own  *)
(* state and their own specifications; they share no state with the        *)
(* streaming endpoint but the Broker Session.                              *)
(***************************************************************************)
EXTENDS Naturals, Integers, Sequences, FiniteSets, TLC

\* ---- bounds -------------------------------------------------------------
NumSockets == 3
MaxTicks == 1

Sockets == 1..NumSockets
Symbols == {"AAPL", "XYZ"}
\* a path parameter that is no ticker symbol
MalformedSymbols == {"!!"}
AllSymbols == Symbols \cup MalformedSymbols
NoSymbol == ""

VARIABLES
    active_subscriptions,  \* dict symbol -> set of websockets
    pc,                    \* per websocket: where its handler coroutine is
    symbol,                \* per websocket: the path parameter
    client_state,          \* per websocket: transport state seen by the server
    updateEvent,           \* per symbol: on_update callbacks registered (by socket)
    qualifyCount,          \* per symbol: calls of ib.qualifyContractsAsync by the stream handler
    reqMktDataCount,       \* per symbol: calls of ib.reqMktData
    cancelMktDataCount,    \* per symbol: calls of ib.cancelMktData
    updates,               \* the symbols of the ticker updates the broker has emitted, in order
    tasks,                 \* send tasks created by loop.create_task, not yet run
    sent,                  \* per websocket: the messages written to it, in order
    failed                 \* send tasks that raised

VARIABLES
    hpc,                   \* per historical-bars request: where its handler is
    hqual,                 \* per request: what qualifyContractsAsync returned
    herror,                \* per request: error_occurred and error_message
    errorEvent,            \* the error_handler callbacks on ib.errorEvent (by request)
    hdata,                 \* per request: reqHistoricalDataAsync has been called
    houtcome,              \* per request: how the awaited data pull ended
    hresp                  \* per request: the HTTP response

VARIABLES
    trades,                \* ib.trades(): the orders the broker session knows, in order
    opc,                   \* per place_order request: where its handler is
    oreq,                  \* per place_order request: the OrderRequest
    oqualify,              \* per place_order request: qualifyContractsAsync has been called
    oqual,                 \* per place_order request: the conIds of the contracts it returned
    oplaced,               \* per place_order request: the order id placeOrder was called with, 0 if none
    oresp,                 \* per place_order request: the HTTP response
    cancelCalls,           \* the order ids ib.cancelOrder was called with, in order
    cresp,                 \* the cancel_order requests handled: order id and HTTP status
    placeCalls,            \* the order ids ib.placeOrder was called with, in order
    nmod,                  \* the number of modify_order requests handled
    mresp                  \* the last modify_order request and its HTTP status

VARIABLES
    managedAccounts,       \* ib.managedAccounts()
    ppc,                   \* per /pnl/single request: where its handler is
    preq,                  \* per /pnl/single request: the query parameters
    psingle,               \* per /pnl/single request: reqPnLSingle has been called
    presp                  \* per /pnl/single request: the HTTP response

VARIABLES
    epc,                   \* per scanner or account request: where its handler is
    ehandler,              \* per scanner or account request: the handler it went to
    eraised,               \* per request: the status of the HTTPException the handler raised itself, 0 if none
    eresp                  \* per request: the HTTP status the client receives

VARIABLES
    pnlActive,             \* the (account, modelCode) keys with an upstream PnL subscription
    reqPnLCount,           \* per key: calls of ib.reqPnL
    cancelPnLCount,        \* per key: calls of ib.cancelPnL
    gpc,                   \* per GET /pnl request: where its handler is
    greq,                  \* per GET /pnl request: the query parameters
    graised,               \* per GET /pnl request: the status the handler raised itself, 0 if none
    gresp,                 \* per GET /pnl request: the HTTP status the client receives
    wpc,                   \* per PnL websocket: where its handler is
    waccount               \* per PnL websocket: the path parameter

VARIABLES
    dpc,                   \* per REST market-data request: where its handler is
    dreq,                  \* per REST market-data request: the handler, the symbol, the snapshot flag
    dresp,                 \* per REST market-data request: the HTTP status
    snapshotCount,         \* per symbol: calls of ib.reqMktData with snapshot set
    reqMktDepthCount,      \* per symbol: calls of ib.reqMktDepth
    reqRealTimeBarsCount   \* per symbol: calls of ib.reqRealTimeBars

\* the state of the streaming endpoint
streamVars == <<active_subscriptions, pc, symbol, client_state, updateEvent,
                qualifyCount, reqMktDataCount, cancelMktDataCount, updates,
                tasks, sent, failed>>

\* the state of get_historical_bars
histVars == <<hpc, hqual, herror, errorEvent, hdata, houtcome, hresp>>

\* the state of place_order and cancel_order
tradeVars == <<trades, opc, oreq, oqualify, oqual, oplaced, oresp, cancelCalls,
               cresp, placeCalls, nmod, mresp>>

\* the state of get_single_pnl
acctVars == <<managedAccounts, ppc, preq, psingle, presp>>

\* the state of run_scanner, get_account_summary and get_account_values
errVars == <<epc, ehandler, eraised, eresp>>

\* the state of get_pnl and stream_pnl
pnlVars == <<pnlActive, reqPnLCount, cancelPnLCount, gpc, greq, graised, gresp,
             wpc, waccount>>

\* the state of get_market_data, get_market_depth and get_realtime_bars, but
\* for the count of the streaming reqMktData calls they share with the
\* streaming endpoint
dataVars == <<dpc, dreq, dresp, snapshotCount, reqMktDepthCount, reqRealTimeBarsCount>>

\* the state of the REST handlers and of the PnL stream
restVars == <<histVars, tradeVars, acctVars, errVars, pnlVars, dataVars>>

\* what the handlers of one family leave alone
notHist == <<streamVars, tradeVars, acctVars, errVars, pnlVars, dataVars>>
notTrade == <<streamVars, histVars, acctVars, errVars, pnlVars, dataVars>>
notAcct == <<streamVars, histVars, tradeVars, errVars, pnlVars, dataVars>>
notErr == <<streamVars, histVars, tradeVars, acctVars, pnlVars, dataVars>>
notPnl == <<streamVars, histVars, tradeVars, acctVars, errVars, dataVars>>
notData == <<active_subscriptions, pc, symbol, client_state, updateEvent,
             qualifyCount, cancelMktDataCount, updates, tasks, sent, failed,
             histVars, tradeVars, acctVars, errVars, pnlVars>>

vars == <<streamVars, restVars>>

\* ---- the registry -------------------------------------------------------
EmptyRegistry == [k \in {} |-> {}]

\* the sink set of a key; a key without an entry has no sinks
Sinks(subs, sym) == IF sym \in DOMAIN subs THEN subs[sym] ELSE {}

\* a registration whose set object is shared by every entry of the registry
SubscribeSharedSet(subs, sym, ws) ==
    [k \in DOMAIN subs \cup {sym} |->
        (IF k \in DOMAIN subs THEN subs[k] ELSE {}) \cup {ws}]

\* market_data.py 408-410
Subscribe(subs, sym, ws) ==
    LET s1 == IF sym \notin DOMAIN subs
              THEN [k \in DOMAIN subs \cup {sym} |->
                        IF k = sym THEN {} ELSE subs[k]]
              ELSE subs
    IN [s1 EXCEPT ![sym] = @ \cup {ws}]

\* a removal that cancels upstream although other sinks remain
UnsubscribeAlwaysCancel(subs, sym, ws) ==
    IF sym \in DOMAIN subs
    THEN LET s1 == [subs EXCEPT ![sym] = @ \ {ws}]
         IN IF s1[sym] = {}
            THEN [subs |-> [k \in DOMAIN s1 \ {sym} |-> s1[k]], cancel |-> TRUE]
            ELSE [subs |-> s1, cancel |-> TRUE]
    ELSE [subs |-> subs, cancel |-> FALSE]

\* a removal that cancels upstream but keeps the emptied entry
UnsubscribeNoDel(subs, sym, ws) ==
    IF sym \in DOMAIN subs
    THEN LET s1 == [subs EXCEPT ![sym] = @ \ {ws}]
         IN IF s1[sym] = {}
            THEN [subs |-> s1, cancel |-> TRUE]
            ELSE [subs |-> s1, cancel |-> FALSE]
    ELSE [subs |-> subs, cancel |-> FALSE]

\* market_data.py 442-446: the registry after the removal, and whether
\* ib.cancelMktData is called
Unsubscribe(subs, sym, ws) ==
    IF sym \in DOMAIN subs
    THEN LET s1 == [subs EXCEPT ![sym] = @ \ {ws}]
         IN IF s1[sym] = {}
            THEN [subs |-> [k \in DOMAIN s1 \ {sym} |-> s1[k]], cancel |-> TRUE]
            ELSE [subs |-> s1, cancel |-> FALSE]
    ELSE [subs |-> subs, cancel |-> FALSE]

\* ---- the update callback -------------------------------------------------
\* the data dictionary on_update builds: the symbol and the ticker's state
Message(sym, n) == [symbol |-> sym, tick |-> n]

\* a callback that writes to every registered socket, whatever its key
on_updateBroadcast(ws, sym, n) ==
    {[ws |-> w, msg |-> Message(sym, n)] :
        w \in UNION {active_subscriptions[k] : k \in DOMAIN active_subscriptions}}

\* market_data.py 414-428: one send task for the callback's own websocket
on_update(ws, sym, n) == {[ws |-> ws, msg |-> Message(sym, n)]}

\* ---- initial state -------------------------------------------------------
\* ---- get_historical_bars ----------------------------------------------------
NumHistReqs == 2
HistReqs == 1..NumHistReqs

\* the codes the broker reports on errorEvent
ErrorCodes == {2104, 200, 504, 1100}

\* the reqId of an error event that belongs to no request
NoReqId == 0

\* a response: the status, the kind of detail, and the broker's error code
\* when the detail is the recorded error message
NoResponse == [status |-> 0, detail |-> "none", code |-> 0]
\* a handler's nonlocals error_occurred and error_message, and the reqId
\* arguments of the calls that set the flag
NoError == [occurred |-> FALSE, message |-> 0, reqIds |-> {}]

\* an error callback without the list of status codes
error_handlerNoIgnore(st, reqId, errorCode) ==
    IF errorCode >= 1000 \/ errorCode \in {162, 200, 366}
    THEN [occurred |-> TRUE, message |-> errorCode,
          reqIds |-> st.reqIds \cup {reqId}]
    ELSE st

\* market_data.py 101-116: the error flag and the code in the message after
\* the callback has seen a code
error_handler(st, reqId, errorCode) ==
    IF errorCode \in {2103, 2104, 2105, 2106, 2107, 2108, 2119, 2157, 2158}
    THEN st
    ELSE IF errorCode >= 1000 \/ errorCode \in {162, 200, 366}
         THEN [occurred |-> TRUE, message |-> errorCode,
               reqIds |-> st.reqIds \cup {reqId}]
         ELSE st

\* market_data.py 98-99: no historical-bars request has been received
HistInit ==
    /\ hpc = [r \in HistReqs |-> "idle"]
    /\ hqual = [r \in HistReqs |-> "none"]
    /\ herror = [r \in HistReqs |-> NoError]
    /\ errorEvent = {}
    /\ hdata = [r \in HistReqs |-> FALSE]
    /\ houtcome = [r \in HistReqs |-> "none"]
    /\ hresp = [r \in HistReqs |-> NoResponse]

\* ---- place_order and cancel_order ------------------------------------------
\* an Optional field that was not supplied; a supplied value v is <<v>>
None == <<>>

PlaceReqs == {1, 2}
MaxCancelReqs == 2

\* the order ids a cancel request can name: those place_order can have
\* created, and one more that matches no trade
OrderIds == 1..(Cardinality(PlaceReqs) + 1)

OrderTypes == {"MKT", "LMT", "STP", "STP LMT", "TRAIL"}
Prices == {None, <<10>>}
Quantities == {1}
OrderRequests == [order_type : OrderTypes, quantity : Quantities,
                  limit_price : Prices, stop_price : Prices]
NoRequest == [order_type |-> "none", quantity |-> 0,
              limit_price |-> None, stop_price |-> None]

\* what qualifyContractsAsync can return: the conIds of the contracts, 0 for
\* a contract the broker did not qualify
QualifyResults == {<<>>, <<0>>, <<265598>>, <<0, 265598>>}

\* a filter that keeps the contracts without a conId
QualifiedNoFilter(result) == result

\* trading.py 206-207: the contracts that were actually qualified
Qualified(result) == SelectSeq(result, LAMBDA c : c # 0)

\* trading.py 143-179: the quantity and the prices of the order create_order
\* builds; a price the order type does not take stays unset
OrderFields(order_req) ==
    [totalQuantity |-> order_req.quantity,
     lmtPrice |-> IF order_req.order_type \in {"LMT", "STP LMT"}
                  THEN order_req.limit_price ELSE None,
     auxPrice |-> IF order_req.order_type \in {"STP", "STP LMT"}
                  THEN order_req.stop_price ELSE None]

\* ---- modify_order ----
MaxModifyReqs == 2
ModifyQuantities == {None, <<5>>}
ModifyPrices == {None, <<20>>}
NoModify == [order_id |-> 0, quantity |-> None, limit_price |-> None,
             stop_price |-> None, status |-> 0]

\* a modification that writes all three fields, supplied or not
ModifiedOrderOverwrite(t, quantity, limit_price, stop_price) ==
    [t EXCEPT !.totalQuantity = IF quantity # None THEN quantity[1] ELSE 0,
              !.lmtPrice = limit_price,
              !.auxPrice = stop_price]

\* trading.py 281-287: the trade after the supplied fields have been written
\* to its order
ModifiedOrder(t, quantity, limit_price, stop_price) ==
    [t EXCEPT !.totalQuantity = IF quantity # None THEN quantity[1] ELSE @,
              !.lmtPrice = IF limit_price # None THEN limit_price ELSE @,
              !.auxPrice = IF stop_price # None THEN stop_price ELSE @]

\* an order builder without the check of the trailing amount
create_orderNoTrailCheck(order_req) ==
    CASE order_req.order_type = "MKT" -> "order"
      [] order_req.order_type = "LMT" ->
            IF order_req.limit_price = None THEN "ValueError" ELSE "order"
      [] order_req.order_type = "STP" ->
            IF order_req.stop_price = None THEN "ValueError" ELSE "order"
      [] order_req.order_type = "STP LMT" ->
            IF order_req.limit_price = None \/ order_req.stop_price = None
            THEN "ValueError" ELSE "order"
      [] order_req.order_type = "TRAIL" -> "order"
      [] OTHER -> "ValueError"

\* trading.py 141-194: an order is built, or ValueError is raised
create_order(order_req) ==
    CASE order_req.order_type = "MKT" -> "order"
      [] order_req.order_type = "LMT" ->
            IF order_req.limit_price = None THEN "ValueError" ELSE "order"
      [] order_req.order_type = "STP" ->
            IF order_req.stop_price = None THEN "ValueError" ELSE "order"
      [] order_req.order_type = "STP LMT" ->
            IF order_req.limit_price = None \/ order_req.stop_price = None
            THEN "ValueError" ELSE "order"
      [] order_req.order_type = "TRAIL" ->
            IF order_req.stop_price = None THEN "ValueError" ELSE "order"
      [] OTHER -> "ValueError"

\* a lookup that takes the last trade when none matches
FindTradeOrLast(ts, order_id) ==
    IF \E i \in DOMAIN ts : ts[i].orderId = order_id
    THEN CHOOSE i \in DOMAIN ts :
            /\ ts[i].orderId = order_id
            /\ \A j \in DOMAIN ts : ts[j].orderId = order_id => i <= j
    ELSE Len(ts)

\* trading.py 310-314: the index of the first trade with the order id, 0 if
\* there is none
FindTrade(ts, order_id) ==
    IF \E i \in DOMAIN ts : ts[i].orderId = order_id
    THEN CHOOSE i \in DOMAIN ts :
            /\ ts[i].orderId = order_id
            /\ \A j \in DOMAIN ts : ts[j].orderId = order_id => i <= j
    ELSE 0

\* no order request has been received and the session knows no trade
TradeInit ==
    /\ trades = <<>>
    /\ opc = [q \in PlaceReqs |-> "idle"]
    /\ oreq = [q \in PlaceReqs |-> NoRequest]
    /\ oqualify = [q \in PlaceReqs |-> FALSE]
    /\ oqual = [q \in PlaceReqs |-> <<>>]
    /\ oplaced = [q \in PlaceReqs |-> 0]
    /\ oresp = [q \in PlaceReqs |-> 0]
    /\ cancelCalls = <<>>
    /\ cresp = <<>>
    /\ placeCalls = <<>>
    /\ nmod = 0
    /\ mresp = NoModify

\* ---- get_single_pnl ---------------------------------------------------------
PnlReqs == {1, 2}
Accounts == {None, <<"DU1">>}
ConIds == {None, <<265598>>}
NoPnlRequest == [account |-> None, con_id |-> None]

\* no /pnl/single request has been received; the session has not been told
\* its accounts
AcctInit ==
    /\ managedAccounts = <<>>
    /\ ppc = [p \in PnlReqs |-> "idle"]
    /\ preq = [p \in PnlReqs |-> NoPnlRequest]
    /\ psingle = [p \in PnlReqs |-> FALSE]
    /\ presp = [p \in PnlReqs |-> 0]

\* ---- run_scanner, get_account_summary, get_account_values -------------------
ErrReqs == {1, 2}

\* scanner.py 99-101, account.py 149-151, 175-177, 289-293: the handler's only
\* except clause catches every Exception, the HTTPException the handler raised
\* itself included, and raises HTTPException with status 500
ExceptException(raised) == 500

\* no scanner or account request has been received
ErrInit ==
    /\ epc = [i \in ErrReqs |-> "idle"]
    /\ ehandler = [i \in ErrReqs |-> "none"]
    /\ eraised = [i \in ErrReqs |-> 0]
    /\ eresp = [i \in ErrReqs |-> 0]

\* ---- get_pnl and stream_pnl ------------------------------------------------
GetPnlReqs == {1, 2}
PnlSockets == {1, 2}
ModelCodes == {None, <<"M1">>}
\* the accounts a PnL stream is opened for
PnlAccounts == {"DU1", "DU2"}
\* the PnL object reqPnL returns, where it is passed in the place of an account
PnLObject == "PnL"
\* the keys ib.reqPnL and ib.cancelPnL are called with
PnlKeys == (PnlAccounts \cup {PnLObject}) \X {"", "M1"}
NoGetPnl == [account |-> None, model_code |-> None]

\* account.py 267, 271: model_code or ""
ModelCode(model_code) == IF model_code = None THEN "" ELSE model_code[1]

\* no PnL request has been received and no PnL subscription is open
PnlInit ==
    /\ pnlActive = {}
    /\ reqPnLCount = [k \in PnlKeys |-> 0]
    /\ cancelPnLCount = [k \in PnlKeys |-> 0]
    /\ gpc = [g \in GetPnlReqs |-> "idle"]
    /\ greq = [g \in GetPnlReqs |-> NoGetPnl]
    /\ graised = [g \in GetPnlReqs |-> 0]
    /\ gresp = [g \in GetPnlReqs |-> 0]
    /\ wpc = [s \in PnlSockets |-> "idle"]
    /\ waccount = [s \in PnlSockets |-> ""]

\* ---- get_market_data, get_market_depth, get_realtime_bars -------------------
DataReqs == {1, 2}
DataHandlers == {"get_market_data", "get_market_depth", "get_realtime_bars"}
NoDataRequest == [handler |-> "none", symbol |-> NoSymbol, snapshot |-> FALSE]

\* no REST market-data request has been received
DataInit ==
    /\ dpc = [d \in DataReqs |-> "idle"]
    /\ dreq = [d \in DataReqs |-> NoDataRequest]
    /\ dresp = [d \in DataReqs |-> 0]
    /\ snapshotCount = [k \in AllSymbols |-> 0]
    /\ reqMktDepthCount = [k \in AllSymbols |-> 0]
    /\ reqRealTimeBarsCount = [k \in AllSymbols |-> 0]

\* no REST request has been received
RestInit == HistInit /\ TradeInit /\ AcctInit /\ ErrInit /\ PnlInit /\ DataInit

Init ==
    /\ active_subscriptions = EmptyRegistry
    /\ pc = [s \in Sockets |-> "idle"]
    /\ symbol = [s \in Sockets |-> NoSymbol]
    /\ client_state = [s \in Sockets |-> "CONNECTING"]
    /\ updateEvent = [k \in AllSymbols |-> {}]
    /\ qualifyCount = [k \in AllSymbols |-> 0]
    /\ reqMktDataCount = [k \in AllSymbols |-> 0]
    /\ cancelMktDataCount = [k \in AllSymbols |-> 0]
    /\ updates = <<>>
    /\ tasks = {}
    /\ sent = [s \in Sockets |-> <<>>]
    /\ failed = {}
    /\ RestInit

\* ---- actions -------------------------------------------------------------
\* market_data.py 389-398: accept, build the contract, await qualification.
\* WebSocket objects are fresh per connection; they are numbered in the
\* order they are accepted.
Accept(ws, sym) ==
    /\ pc[ws] = "idle"
    /\ \A w \in Sockets : w < ws => pc[w] # "idle"
    /\ pc' = [pc EXCEPT ![ws] = "qualifying"]
    /\ symbol' = [symbol EXCEPT ![ws] = sym]
    /\ client_state' = [client_state EXCEPT ![ws] = "CONNECTED"]
    /\ qualifyCount' = [qualifyCount EXCEPT ![sym] = @ + 1]
    /\ UNCHANGED <<active_subscriptions, updateEvent, reqMktDataCount,
                   cancelMktDataCount, updates, tasks, sent, failed>>
    /\ UNCHANGED restVars

\* a rejection that leaves the socket registered and the request issued
QualifyRejectPartial(ws) ==
    /\ pc[ws] = "qualifying"
    /\ pc' = [pc EXCEPT ![ws] = "rejected"]
    /\ reqMktDataCount' = [reqMktDataCount EXCEPT ![symbol[ws]] = @ + 1]
    /\ active_subscriptions' = Subscribe(active_subscriptions, symbol[ws], ws)
    /\ IF client_state[ws] = "CONNECTED"
       THEN sent' = [sent EXCEPT ![ws] = Append(@, [error |-> "Contract not found"])]
       ELSE sent' = sent
    /\ UNCHANGED <<symbol, client_state, updateEvent,
                   cancelMktDataCount, updates, tasks, failed>>
    /\ UNCHANGED <<qualifyCount, restVars>>

\* a rejection without the return: the error is sent and the handler goes
\* on to subscribe and stream
QualifyRejectFallsThrough(ws) ==
    /\ pc[ws] = "qualifying"
    /\ symbol[ws] \in Symbols
    /\ pc' = [pc EXCEPT ![ws] = "streaming"]
    /\ IF client_state[ws] = "CONNECTED"
       THEN sent' = [sent EXCEPT ![ws] = Append(@, [error |-> "Contract not found"])]
       ELSE sent' = sent
    /\ reqMktDataCount' = [reqMktDataCount EXCEPT ![symbol[ws]] = @ + 1]
    /\ active_subscriptions' = Subscribe(active_subscriptions, symbol[ws], ws)
    /\ updateEvent' = [updateEvent EXCEPT ![symbol[ws]] = @ \cup {ws}]
    /\ UNCHANGED <<symbol, client_state, cancelMktDataCount, updates, tasks, failed>>
    /\ UNCHANGED <<qualifyCount, restVars>>

\* market_data.py 398-402: qualification yields no contract; the error is
\* sent, the socket closed, and the handler returns
QualifyReject(ws) ==
    /\ pc[ws] = "qualifying"
    /\ pc' = [pc EXCEPT ![ws] = "rejected"]
    /\ IF client_state[ws] = "CONNECTED"
       THEN sent' = [sent EXCEPT ![ws] = Append(@, [error |-> "Contract not found"])]
       ELSE sent' = sent
    /\ UNCHANGED <<active_subscriptions, symbol, client_state, updateEvent,
                   reqMktDataCount, cancelMktDataCount, updates, tasks, failed>>
    /\ UNCHANGED <<qualifyCount, restVars>>

\* a set-up that replaces the symbol's upstream subscription: it cancels the
\* one in place and requests a new one
QualifyOkRefresh(ws) ==
    /\ pc[ws] = "qualifying"
    /\ symbol[ws] \in Symbols
    /\ pc' = [pc EXCEPT ![ws] = "streaming"]
    /\ cancelMktDataCount' =
          IF symbol[ws] \in DOMAIN active_subscriptions
          THEN [cancelMktDataCount EXCEPT ![symbol[ws]] = @ + 1]
          ELSE cancelMktDataCount
    /\ reqMktDataCount' = [reqMktDataCount EXCEPT ![symbol[ws]] = @ + 1]
    /\ active_subscriptions' = Subscribe(active_subscriptions, symbol[ws], ws)
    /\ updateEvent' = [updateEvent EXCEPT ![symbol[ws]] = @ \cup {ws}]
    /\ UNCHANGED <<symbol, client_state, updates, tasks, sent, failed>>
    /\ UNCHANGED <<qualifyCount, restVars>>

\* market_data.py 398, 404-436: qualification succeeds (the broker knows no
\* contract for a malformed symbol); reqMktData, the
\* registration and the callback registration run without an await between
\* them, then the handler waits in receive_text
QualifyOk(ws) ==
    /\ pc[ws] = "qualifying"
    /\ symbol[ws] \in Symbols
    /\ pc' = [pc EXCEPT ![ws] = "streaming"]
    /\ reqMktDataCount' = [reqMktDataCount EXCEPT ![symbol[ws]] = @ + 1]
    /\ active_subscriptions' = Subscribe(active_subscriptions, symbol[ws], ws)
    /\ updateEvent' = [updateEvent EXCEPT ![symbol[ws]] = @ \cup {ws}]
    /\ UNCHANGED <<symbol, client_state, cancelMktDataCount, updates, tasks,
                   sent, failed>>
    /\ UNCHANGED <<qualifyCount, restVars>>

\* the client goes away: the transport is closed, and the next
\* receive_text of the handler raises WebSocketDisconnect
ClientDisconnect(ws) ==
    /\ pc[ws] \in {"qualifying", "streaming", "closing"}
    /\ client_state[ws] = "CONNECTED"
    /\ client_state' = [client_state EXCEPT ![ws] = "DISCONNECTED"]
    /\ UNCHANGED <<active_subscriptions, pc, symbol, updateEvent,
                   reqMktDataCount, cancelMktDataCount, updates, tasks, sent,
                   failed>>
    /\ UNCHANGED <<qualifyCount, restVars>>

\* market_data.py 439-446: the finally block
Finally(ws) ==
    LET r == Unsubscribe(active_subscriptions, symbol[ws], ws)
    IN /\ updateEvent' = [updateEvent EXCEPT ![symbol[ws]] = @ \ {ws}]
       /\ active_subscriptions' = r.subs
       /\ cancelMktDataCount' =
            IF r.cancel
            THEN [cancelMktDataCount EXCEPT ![symbol[ws]] = @ + 1]
            ELSE cancelMktDataCount

\* market_data.py 436-446: receive_text raises WebSocketDisconnect
TeardownDisconnect(ws) ==
    /\ pc[ws] = "streaming"
    /\ client_state[ws] = "DISCONNECTED"
    /\ Finally(ws)
    /\ pc' = [pc EXCEPT ![ws] = "closed"]
    /\ UNCHANGED <<symbol, client_state, reqMktDataCount, updates, tasks, sent,
                   failed>>
    /\ UNCHANGED <<qualifyCount, restVars>>

\* market_data.py 436, 439-450: receive_text raises another exception (a
\* receive error); the finally block runs, then the outer handler writes
\* the error and awaits the send
TeardownError(ws) ==
    /\ pc[ws] = "streaming"
    /\ Finally(ws)
    /\ pc' = [pc EXCEPT ![ws] = "closing"]
    /\ IF client_state[ws] = "CONNECTED"
       THEN sent' = [sent EXCEPT ![ws] = Append(@, [error |-> "receive failed"])]
       ELSE sent' = sent
    /\ UNCHANGED <<symbol, client_state, reqMktDataCount, updates, tasks, failed>>
    /\ UNCHANGED <<qualifyCount, restVars>>

\* market_data.py 449-452: the send of the error is over and the socket is
\* closed
CloseAfterError(ws) ==
    /\ pc[ws] = "closing"
    /\ pc' = [pc EXCEPT ![ws] = "closed"]
    /\ UNCHANGED <<active_subscriptions, symbol, client_state, updateEvent,
                   reqMktDataCount, cancelMktDataCount, updates, tasks, sent,
                   failed>>
    /\ UNCHANGED <<qualifyCount, restVars>>

\* market_data.py 436, 439-446: the handler task is cancelled while it
\* waits; CancelledError passes the finally block and no except clause
TeardownCancelled(ws) ==
    /\ pc[ws] = "streaming"
    /\ Finally(ws)
    /\ pc' = [pc EXCEPT ![ws] = "closed"]
    /\ UNCHANGED <<symbol, client_state, reqMktDataCount, updates, tasks, sent,
                   failed>>
    /\ UNCHANGED <<qualifyCount, restVars>>

\* the number of market-data requests of a symbol the handlers have opened
\* with the broker and not cancelled
ActiveUpstream(sym) == reqMktDataCount[sym] - cancelMktDataCount[sym]

\* market_data.py 431, 414-428: the broker emits an update for a symbol it
\* streams; every callback on the ticker's updateEvent runs
TickerUpdate(sym) ==
    /\ Len(updates) < MaxTicks
    /\ ActiveUpstream(sym) > 0
    /\ updates' = Append(updates, sym)
    /\ tasks' = tasks \cup
                UNION {on_update(ws, sym, Len(updates) + 1) : ws \in updateEvent[sym]}
    /\ UNCHANGED <<active_subscriptions, pc, symbol, client_state, updateEvent,
                   reqMktDataCount, cancelMktDataCount, sent, failed>>
    /\ UNCHANGED <<qualifyCount, restVars>>

\* a websocket accepts a write while the client is there and the handler
\* has not closed it
Writable(ws) ==
    client_state[ws] = "CONNECTED" /\ pc[ws] \in {"streaming", "closing"}

\* sends that are awaited one after the other: a write runs only when no
\* send of the same update to an earlier socket is pending
SendOkAfterEarlier(t) ==
    /\ t \in tasks
    /\ Writable(t.ws)
    /\ \A u \in tasks : u.msg = t.msg => u.ws >= t.ws
    /\ tasks' = tasks \ {t}
    /\ sent' = [sent EXCEPT ![t.ws] = Append(@, t.msg)]
    /\ UNCHANGED <<active_subscriptions, pc, symbol, client_state, updateEvent,
                   reqMktDataCount, cancelMktDataCount, updates, failed>>
    /\ UNCHANGED <<qualifyCount, restVars>>

\* market_data.py 428: a send task runs and the write succeeds
SendOk(t) ==
    /\ t \in tasks
    /\ Writable(t.ws)
    /\ tasks' = tasks \ {t}
    /\ sent' = [sent EXCEPT ![t.ws] = Append(@, t.msg)]
    /\ UNCHANGED <<active_subscriptions, pc, symbol, client_state, updateEvent,
                   reqMktDataCount, cancelMktDataCount, updates, failed>>
    /\ UNCHANGED <<qualifyCount, restVars>>

\* a failing write that takes the other pending sends down with it
SendFailAbortsOthers(t) ==
    /\ t \in tasks
    /\ ~Writable(t.ws)
    /\ tasks' = {}
    /\ failed' = failed \cup {t}
    /\ UNCHANGED <<active_subscriptions, pc, symbol, client_state, updateEvent,
                   reqMktDataCount, cancelMktDataCount, updates, sent>>
    /\ UNCHANGED <<qualifyCount, restVars>>

\* market_data.py 428: a send task runs and send_json raises; the exception
\* stays in the task
SendFail(t) ==
    /\ t \in tasks
    /\ ~Writable(t.ws)
    /\ tasks' = tasks \ {t}
    /\ failed' = failed \cup {t}
    /\ UNCHANGED <<active_subscriptions, pc, symbol, client_state, updateEvent,
                   reqMktDataCount, cancelMktDataCount, updates, sent>>
    /\ UNCHANGED <<qualifyCount, restVars>>

Next ==
    \/ \E ws \in Sockets, sym \in Symbols : Accept(ws, sym)
    \/ \E ws \in Sockets : QualifyReject(ws)
    \/ \E ws \in Sockets : QualifyOk(ws)
    \/ \E ws \in Sockets : ClientDisconnect(ws)
    \/ \E ws \in Sockets : TeardownDisconnect(ws)
    \/ \E ws \in Sockets : TeardownError(ws)
    \/ \E ws \in Sockets : CloseAfterError(ws)
    \/ \E ws \in Sockets : TeardownCancelled(ws)
    \/ \E sym \in Symbols : TickerUpdate(sym)
    \/ \E t \in tasks : SendOk(t)
    \/ \E t \in tasks : SendFail(t)

Spec == Init /\ [][Next]_vars

\* ---- concurrent set-up of one new key ------------------------------------
\* the connections whose qualification awaits are pending at the same time
BurstSockets == {1, 2}
BurstSymbol == "AAPL"

\* market_data.py 389-398, run by every connection of the burst: all of
\* them wait for their qualification and the symbol has no entry yet
InitBurst ==
    /\ active_subscriptions = EmptyRegistry
    /\ pc = [s \in Sockets |-> IF s \in BurstSockets THEN "qualifying" ELSE "idle"]
    /\ symbol = [s \in Sockets |-> IF s \in BurstSockets THEN BurstSymbol ELSE NoSymbol]
    /\ client_state = [s \in Sockets |->
                          IF s \in BurstSockets THEN "CONNECTED" ELSE "CONNECTING"]
    /\ updateEvent = [k \in AllSymbols |-> {}]
    /\ qualifyCount = [k \in AllSymbols |-> 0]
    /\ reqMktDataCount = [k \in AllSymbols |-> 0]
    /\ cancelMktDataCount = [k \in AllSymbols |-> 0]
    /\ updates = <<>>
    /\ tasks = {}
    /\ sent = [s \in Sockets |-> <<>>]
    /\ failed = {}
    /\ RestInit

SpecBurst == InitBurst /\ [][Next]_vars

\* ---- actions of get_historical_bars ----------------------------------------
\* market_data.py 96-121: the request arrives; the handler builds the
\* contract and awaits the qualification
HistStart(r) ==
    /\ hpc[r] = "idle"
    /\ hpc' = [hpc EXCEPT ![r] = "qualifying"]
    /\ UNCHANGED <<hqual, herror, errorEvent, hdata, houtcome, hresp>>
    /\ UNCHANGED notHist

\* market_data.py 121-125, 174-175: the qualification returns no contract
\* ("empty") or only contracts with conId 0 ("zero")
HistNotQualified(r, q) ==
    /\ hpc[r] = "qualifying"
    /\ q \in {"empty", "zero"}
    /\ hqual' = [hqual EXCEPT ![r] = q]
    /\ hresp' = [hresp EXCEPT ![r] = [status |-> 404, detail |-> "Contract not found", code |-> 0]]
    /\ hpc' = [hpc EXCEPT ![r] = "done"]
    /\ UNCHANGED <<herror, errorEvent, hdata, houtcome>>
    /\ UNCHANGED notHist

\* market_data.py 121-144: the contract is qualified; the error callback is
\* registered and the handler awaits the data pull
HistQualified(r) ==
    /\ hpc[r] = "qualifying"
    /\ hqual' = [hqual EXCEPT ![r] = "ok"]
    /\ errorEvent' = errorEvent \cup {r}
    /\ hdata' = [hdata EXCEPT ![r] = TRUE]
    /\ hpc' = [hpc EXCEPT ![r] = "pulling"]
    /\ houtcome' = [houtcome EXCEPT ![r] = "pending"]
    /\ UNCHANGED <<herror, hresp>>
    /\ UNCHANGED notHist

\* market_data.py 101-116, 130: the broker session emits an error for the
\* data pull of request reqId (or for no request); every callback on
\* errorEvent runs
BrokerError(reqId, code) ==
    /\ errorEvent # {}
    /\ reqId = NoReqId \/ (reqId \in HistReqs /\ hpc[reqId] = "pulling")
    /\ herror' = [r \in HistReqs |->
                     IF r \in errorEvent
                     THEN error_handler(herror[r], reqId, code)
                     ELSE herror[r]]
    /\ herror' # herror
    /\ UNCHANGED <<hpc, hqual, errorEvent, hdata, houtcome, hresp>>
    /\ UNCHANGED notHist

\* market_data.py 134-172: the data pull returns bars
HistBars(r) ==
    /\ hpc[r] = "pulling"
    /\ errorEvent' = errorEvent \ {r}
    /\ hresp' = [hresp EXCEPT ![r] =
                    IF herror[r].occurred
                    THEN [status |-> 500, detail |-> "error", code |-> herror[r].message]
                    ELSE [status |-> 200, detail |-> "bars", code |-> 0]]
    /\ hpc' = [hpc EXCEPT ![r] = "done"]
    /\ houtcome' = [houtcome EXCEPT ![r] = "returned"]
    /\ UNCHANGED <<hqual, herror, hdata>>
    /\ UNCHANGED notHist

\* a timeout path that leaves the error callback on errorEvent
HistTimeoutLeak(r) ==
    /\ hpc[r] = "pulling"
    /\ hresp' = [hresp EXCEPT ![r] =
                    IF herror[r].occurred
                    THEN [status |-> 500, detail |-> "error", code |-> herror[r].message]
                    ELSE [status |-> 500, detail |-> "Request timed out", code |-> 0]]
    /\ hpc' = [hpc EXCEPT ![r] = "done"]
    /\ houtcome' = [houtcome EXCEPT ![r] = "timeout"]
    /\ UNCHANGED <<hqual, herror, errorEvent, hdata>>
    /\ UNCHANGED notHist

\* a timeout path that answers with an empty list of bars
HistTimeoutEmptyBars(r) ==
    /\ hpc[r] = "pulling"
    /\ errorEvent' = errorEvent \ {r}
    /\ hresp' = [hresp EXCEPT ![r] =
                    IF herror[r].occurred
                    THEN [status |-> 500, detail |-> "error", code |-> herror[r].message]
                    ELSE [status |-> 200, detail |-> "bars", code |-> 0]]
    /\ hpc' = [hpc EXCEPT ![r] = "done"]
    /\ houtcome' = [houtcome EXCEPT ![r] = "timeout"]
    /\ UNCHANGED <<hqual, herror, hdata>>
    /\ UNCHANGED notHist

\* market_data.py 134-152, 174-175: the data pull does not return within
\* the timeout
HistTimeout(r) ==
    /\ hpc[r] = "pulling"
    /\ errorEvent' = errorEvent \ {r}
    /\ hresp' = [hresp EXCEPT ![r] =
                    IF herror[r].occurred
                    THEN [status |-> 500, detail |-> "error", code |-> herror[r].message]
                    ELSE [status |-> 500, detail |-> "Request timed out", code |-> 0]]
    /\ hpc' = [hpc EXCEPT ![r] = "done"]
    /\ houtcome' = [houtcome EXCEPT ![r] = "timeout"]
    /\ UNCHANGED <<hqual, herror, hdata>>
    /\ UNCHANGED notHist

\* market_data.py 134-152, 176-178: the data pull raises
HistRaise(r) ==
    /\ hpc[r] = "pulling"
    /\ errorEvent' = errorEvent \ {r}
    /\ hresp' = [hresp EXCEPT ![r] = [status |-> 500, detail |-> "exception", code |-> 0]]
    /\ hpc' = [hpc EXCEPT ![r] = "done"]
    /\ houtcome' = [houtcome EXCEPT ![r] = "raised"]
    /\ UNCHANGED <<hqual, herror, hdata>>
    /\ UNCHANGED notHist

HistNext ==
    \/ \E r \in HistReqs : HistStart(r)
    \/ \E r \in HistReqs, q \in {"empty", "zero"} : HistNotQualified(r, q)
    \/ \E r \in HistReqs : HistQualified(r)
    \/ \E reqId \in HistReqs \cup {NoReqId}, code \in ErrorCodes : BrokerError(reqId, code)
    \/ \E r \in HistReqs : HistBars(r)
    \/ \E r \in HistReqs : HistTimeout(r)
    \/ \E r \in HistReqs : HistRaise(r)

\* the historical-bars requests alone
SpecHist == Init /\ [][HistNext]_vars

\* the streaming connections that run next to the historical-bars requests
HandlerSockets == {1, 2}
\* the errors the session reports meanwhile: a lost connection
HandlerErrorCodes == {1100}

HandlersNext ==
    \/ \E ws \in HandlerSockets, sym \in Symbols : Accept(ws, sym)
    \/ \E ws \in HandlerSockets : QualifyReject(ws)
    \/ \E ws \in HandlerSockets : QualifyOk(ws)
    \/ \E ws \in HandlerSockets : ClientDisconnect(ws)
    \/ \E ws \in HandlerSockets : TeardownDisconnect(ws)
    \/ \E ws \in HandlerSockets : TeardownError(ws)
    \/ \E ws \in HandlerSockets : CloseAfterError(ws)
    \/ \E ws \in HandlerSockets : TeardownCancelled(ws)
    \/ \E sym \in Symbols : TickerUpdate(sym)
    \/ \E t \in tasks : SendOk(t)
    \/ \E t \in tasks : SendFail(t)
    \/ \E r \in HistReqs : HistStart(r)
    \/ \E r \in HistReqs, q \in {"empty", "zero"} : HistNotQualified(r, q)
    \/ \E r \in HistReqs : HistQualified(r)
    \/ \E code \in HandlerErrorCodes : BrokerError(NoReqId, code)
    \/ \E r \in HistReqs : HistBars(r)
    \/ \E r \in HistReqs : HistTimeout(r)
    \/ \E r \in HistReqs : HistRaise(r)

\* streaming connections and historical-bars requests side by side
SpecHandlers == Init /\ [][HandlersNext]_vars

\* the streaming endpoint with malformed path parameters among the symbols
KeysNext ==
    \/ \E ws \in Sockets, sym \in MalformedSymbols : Accept(ws, sym)
    \/ Next

SpecKeys == Init /\ [][KeysNext]_vars

\* ---- actions of place_order, cancel_order and modify_order -----------------
\* trading.py 198-205, 219-220: the request arrives; the contract and the
\* order are built; a ValueError of create_order is answered with 400,
\* otherwise the handler awaits the qualification
PlaceOrder(q, order_req) ==
    /\ opc[q] = "idle"
    /\ oreq' = [oreq EXCEPT ![q] = order_req]
    /\ IF create_order(order_req) = "ValueError"
       THEN /\ oresp' = [oresp EXCEPT ![q] = 400]
            /\ opc' = [opc EXCEPT ![q] = "done"]
            /\ oqualify' = oqualify
       ELSE /\ oqualify' = [oqualify EXCEPT ![q] = TRUE]
            /\ opc' = [opc EXCEPT ![q] = "qualifying"]
            /\ oresp' = oresp
    /\ UNCHANGED <<trades, oqual, oplaced, cancelCalls, cresp, placeCalls, nmod, mresp>>
    /\ UNCHANGED notTrade

\* trading.py 205-209, 217-218: the qualification returns no contract with a
\* conId
PlaceNotQualified(q, result) ==
    /\ opc[q] = "qualifying"
    /\ Qualified(result) = <<>>
    /\ oqual' = [oqual EXCEPT ![q] = result]
    /\ oresp' = [oresp EXCEPT ![q] = 404]
    /\ opc' = [opc EXCEPT ![q] = "done"]
    /\ UNCHANGED <<trades, oreq, oqualify, oplaced, cancelCalls, cresp,
                   placeCalls, nmod, mresp>>
    /\ UNCHANGED notTrade

\* trading.py 205-216: a contract is qualified; ib.placeOrder is called with
\* the first qualified contract, gives the order the next order id, and the
\* session records the trade
PlaceQualified(q, result) ==
    /\ opc[q] = "qualifying"
    /\ Qualified(result) # <<>>
    /\ oqual' = [oqual EXCEPT ![q] = result]
    /\ trades' = Append(trades,
                    [orderId |-> Len(trades) + 1,
                     conId |-> Qualified(result)[1],
                     totalQuantity |-> OrderFields(oreq[q]).totalQuantity,
                     lmtPrice |-> OrderFields(oreq[q]).lmtPrice,
                     auxPrice |-> OrderFields(oreq[q]).auxPrice])
    /\ placeCalls' = Append(placeCalls, Len(trades) + 1)
    /\ oplaced' = [oplaced EXCEPT ![q] = Len(trades) + 1]
    /\ oresp' = [oresp EXCEPT ![q] = 200]
    /\ opc' = [opc EXCEPT ![q] = "done"]
    /\ UNCHANGED <<oreq, oqualify, cancelCalls, cresp, nmod, mresp>>
    /\ UNCHANGED notTrade

\* trading.py 304-327: cancel_order; the handler has no await
CancelOrder(order_id) ==
    /\ Len(cresp) < MaxCancelReqs
    /\ LET i == FindTrade(trades, order_id)
       IN IF i = 0
          THEN /\ cresp' = Append(cresp, [order_id |-> order_id, status |-> 404])
               /\ cancelCalls' = cancelCalls
          ELSE /\ cancelCalls' = Append(cancelCalls, trades[i].orderId)
               /\ cresp' = Append(cresp, [order_id |-> order_id, status |-> 200])
    /\ UNCHANGED <<trades, opc, oreq, oqualify, oqual, oplaced, oresp,
                   placeCalls, nmod, mresp>>
    /\ UNCHANGED notTrade

\* trading.py 266-300: modify_order; the handler has no await. The first
\* trade with the order id is looked up (404 if there is none), the supplied
\* fields are written to its order, and ib.placeOrder is called with the
\* trade's contract and order, which re-submits the order the session
\* already knows
ModifyOrder(order_id, quantity, limit_price, stop_price) ==
    /\ nmod < MaxModifyReqs
    /\ nmod' = nmod + 1
    /\ LET i == FindTrade(trades, order_id)
           m == [order_id |-> order_id, quantity |-> quantity,
                 limit_price |-> limit_price, stop_price |-> stop_price]
       IN IF i = 0
          THEN /\ mresp' = m @@ [status |-> 404]
               /\ UNCHANGED <<trades, placeCalls>>
          ELSE /\ trades' = [trades EXCEPT ![i] =
                                ModifiedOrder(@, quantity, limit_price, stop_price)]
               /\ placeCalls' = Append(placeCalls, trades[i].orderId)
               /\ mresp' = m @@ [status |-> 200]
    /\ UNCHANGED <<opc, oreq, oqualify, oqual, oplaced, oresp, cancelCalls, cresp>>
    /\ UNCHANGED notTrade

TradingNext ==
    \/ \E q \in PlaceReqs, order_req \in OrderRequests : PlaceOrder(q, order_req)
    \/ \E q \in PlaceReqs, result \in QualifyResults : PlaceNotQualified(q, result)
    \/ \E q \in PlaceReqs, result \in QualifyResults : PlaceQualified(q, result)
    \/ \E order_id \in OrderIds : CancelOrder(order_id)

\* the order handlers alone
SpecTrading == Init /\ [][TradingNext]_vars

\* the order requests whose orders carry prices a modification can change
ModifiableRequests ==
    {order_req \in OrderRequests :
        /\ order_req.order_type \in {"LMT", "STP LMT"}
        /\ order_req.limit_price # None
        /\ order_req.order_type = "STP LMT" <=> order_req.stop_price # None}

ModifyNext ==
    \/ \E q \in PlaceReqs, order_req \in ModifiableRequests : PlaceOrder(q, order_req)
    \/ \E q \in PlaceReqs, result \in QualifyResults : PlaceNotQualified(q, result)
    \/ \E q \in PlaceReqs, result \in QualifyResults : PlaceQualified(q, result)
    \/ \E order_id \in OrderIds, quantity \in ModifyQuantities,
          limit_price \in ModifyPrices, stop_price \in ModifyPrices :
          ModifyOrder(order_id, quantity, limit_price, stop_price)

\* orders placed and then modified
SpecModify == Init /\ [][ModifyNext]_vars

\* ---- actions of get_single_pnl ----------------------------------------------
\* the session is told the accounts it manages
ManagedAccounts(accounts) ==
    /\ managedAccounts = <<>>
    /\ accounts # <<>>
    /\ managedAccounts' = accounts
    /\ UNCHANGED <<ppc, preq, psingle, presp>>
    /\ UNCHANGED notAcct

\* account.py 297-320, 337-338: the request arrives; the account defaults to
\* the first managed account (404 if there is none), a missing con_id is
\* answered with 400, otherwise reqPnLSingle is called and the handler sleeps
SinglePnl(p, account, con_id) ==
    /\ ppc[p] = "idle"
    /\ preq' = [preq EXCEPT ![p] = [account |-> account, con_id |-> con_id]]
    /\ IF account = None /\ managedAccounts = <<>>
       THEN /\ presp' = [presp EXCEPT ![p] = 404]
            /\ ppc' = [ppc EXCEPT ![p] = "done"]
            /\ psingle' = psingle
       ELSE IF con_id = None
            THEN /\ presp' = [presp EXCEPT ![p] = 400]
                 /\ ppc' = [ppc EXCEPT ![p] = "done"]
                 /\ psingle' = psingle
            ELSE /\ psingle' = [psingle EXCEPT ![p] = TRUE]
                 /\ ppc' = [ppc EXCEPT ![p] = "sleeping"]
                 /\ presp' = presp
    /\ UNCHANGED managedAccounts
    /\ UNCHANGED notAcct

\* account.py 320-336: the sleep is over and the values are returned
SinglePnlReturn(p) ==
    /\ ppc[p] = "sleeping"
    /\ presp' = [presp EXCEPT ![p] = 200]
    /\ ppc' = [ppc EXCEPT ![p] = "done"]
    /\ UNCHANGED <<managedAccounts, preq, psingle>>
    /\ UNCHANGED notAcct

AccountNext ==
    \/ \E accounts \in {<<"DU1">>} : ManagedAccounts(accounts)
    \/ \E p \in PnlReqs, account \in Accounts, con_id \in ConIds :
          SinglePnl(p, account, con_id)
    \/ \E p \in PnlReqs : SinglePnlReturn(p)

\* the account handlers alone
SpecAccount == Init /\ [][AccountNext]_vars

\* ---- actions of run_scanner, get_account_summary, get_account_values --------
\* scanner.py 41-69: the request arrives; the subscription is built and the
\* handler awaits the scan
ScannerStart(i) ==
    /\ epc[i] = "idle"
    /\ epc' = [epc EXCEPT ![i] = "scanning"]
    /\ ehandler' = [ehandler EXCEPT ![i] = "run_scanner"]
    /\ UNCHANGED <<eraised, eresp>>
    /\ UNCHANGED notErr

\* scanner.py 69-101: the scan returns n results; for none the handler raises
\* HTTPException(400) inside its try
ScannerReturn(i, n) ==
    /\ epc[i] = "scanning"
    /\ IF n = 0
       THEN /\ eraised' = [eraised EXCEPT ![i] = 400]
            /\ eresp' = [eresp EXCEPT ![i] = ExceptException(400)]
       ELSE /\ eresp' = [eresp EXCEPT ![i] = 200]
            /\ eraised' = eraised
    /\ epc' = [epc EXCEPT ![i] = "done"]
    /\ UNCHANGED ehandler
    /\ UNCHANGED notErr

\* account.py 104-151 (get_account_summary) and 154-177 (get_account_values):
\* the handlers have no await; without an account and without managed
\* accounts they raise HTTPException(404) inside their try
AccountRequest(i, handler, account) ==
    /\ epc[i] = "idle"
    /\ handler \in {"get_account_summary", "get_account_values"}
    /\ ehandler' = [ehandler EXCEPT ![i] = handler]
    /\ IF account = None /\ managedAccounts = <<>>
       THEN /\ eraised' = [eraised EXCEPT ![i] = 404]
            /\ eresp' = [eresp EXCEPT ![i] = ExceptException(404)]
       ELSE /\ eresp' = [eresp EXCEPT ![i] = 200]
            /\ eraised' = eraised
    /\ epc' = [epc EXCEPT ![i] = "done"]
    /\ UNCHANGED notErr

\* ---- actions of get_pnl and stream_pnl -------------------------------------
\* account.py 254-274: the request arrives; without an account and without
\* managed accounts the handler raises HTTPException(404) inside its try;
\* otherwise it cancels the subscription of its key if ib.pnl() has one,
\* calls reqPnL and sleeps
GetPnl(g, account, model_code) ==
    /\ gpc[g] = "idle"
    /\ greq' = [greq EXCEPT ![g] = [account |-> account, model_code |-> model_code]]
    /\ IF account = None /\ managedAccounts = <<>>
       THEN /\ graised' = [graised EXCEPT ![g] = 404]
            /\ gresp' = [gresp EXCEPT ![g] = ExceptException(404)]
            /\ gpc' = [gpc EXCEPT ![g] = "done"]
            /\ UNCHANGED <<pnlActive, reqPnLCount, cancelPnLCount>>
       ELSE LET acct == IF account = None THEN managedAccounts[1] ELSE account[1]
                k == <<acct, ModelCode(model_code)>>
            IN /\ cancelPnLCount' = IF k \in pnlActive
                                     THEN [cancelPnLCount EXCEPT ![k] = @ + 1]
                                     ELSE cancelPnLCount
               /\ reqPnLCount' = [reqPnLCount EXCEPT ![k] = @ + 1]
               /\ pnlActive' = pnlActive \cup {k}
               /\ gpc' = [gpc EXCEPT ![g] = "sleeping"]
               /\ UNCHANGED <<graised, gresp>>
    /\ UNCHANGED <<wpc, waccount>>
    /\ UNCHANGED notPnl

\* account.py 274-288: the sleep is over and the values are returned; the
\* subscription stays
GetPnlReturn(g) ==
    /\ gpc[g] = "sleeping"
    /\ gresp' = [gresp EXCEPT ![g] = 200]
    /\ gpc' = [gpc EXCEPT ![g] = "done"]
    /\ UNCHANGED <<pnlActive, reqPnLCount, cancelPnLCount, greq, graised, wpc, waccount>>
    /\ UNCHANGED notPnl

\* account.py 344-347: the connection arrives and the handler awaits accept
PnlAccept(s, account) ==
    /\ wpc[s] = "idle"
    /\ wpc' = [wpc EXCEPT ![s] = "accepting"]
    /\ waccount' = [waccount EXCEPT ![s] = account]
    /\ UNCHANGED <<pnlActive, reqPnLCount, cancelPnLCount, gpc, greq, graised, gresp>>
    /\ UNCHANGED notPnl

\* account.py 349-361, 368-371: reqPnL is called for (account, ""), whatever
\* ib.pnl() holds. For a key that has a subscription the session raises the
\* "key already exists" assertion error (account.py 264-265): the error is
\* sent and the socket closed. Otherwise the subscription is open and the
\* handler loops over send and sleep
PnlSubscribe(s) ==
    /\ wpc[s] = "accepting"
    /\ LET k == <<waccount[s], "">>
       IN /\ reqPnLCount' = [reqPnLCount EXCEPT ![k] = @ + 1]
          /\ IF k \in pnlActive
             THEN /\ wpc' = [wpc EXCEPT ![s] = "closed"]
                  /\ pnlActive' = pnlActive
             ELSE /\ wpc' = [wpc EXCEPT ![s] = "streaming"]
                  /\ pnlActive' = pnlActive \cup {k}
    /\ UNCHANGED <<cancelPnLCount, gpc, greq, graised, gresp, waccount>>
    /\ UNCHANGED notPnl

\* account.py 268, 367: ib.cancelPnL(account, modelCode) ends the subscription
\* of the key (account, modelCode); stream_pnl passes the PnL object as the
\* account, and no subscription has that key
CancelPnLKey(pnl) == <<PnLObject, "">>

\* account.py 352-367: the client has gone, the send raises
\* WebSocketDisconnect; the finally block calls ib.cancelPnL(pnl)
PnlTeardownDisconnect(s) ==
    /\ wpc[s] = "streaming"
    /\ LET k == CancelPnLKey(s)
       IN /\ cancelPnLCount' = [cancelPnLCount EXCEPT ![k] = @ + 1]
          /\ pnlActive' = pnlActive \ {k}
    /\ wpc' = [wpc EXCEPT ![s] = "closed"]
    /\ UNCHANGED <<reqPnLCount, gpc, greq, graised, gresp, waccount>>
    /\ UNCHANGED notPnl

\* account.py 352-371: the send raises another exception; the finally block
\* calls ib.cancelPnL(pnl), the error is sent and the socket closed
PnlTeardownError(s) ==
    /\ wpc[s] = "streaming"
    /\ LET k == CancelPnLKey(s)
       IN /\ cancelPnLCount' = [cancelPnLCount EXCEPT ![k] = @ + 1]
          /\ pnlActive' = pnlActive \ {k}
    /\ wpc' = [wpc EXCEPT ![s] = "closed"]
    /\ UNCHANGED <<reqPnLCount, gpc, greq, graised, gresp, waccount>>
    /\ UNCHANGED notPnl

\* the handlers that raise an HTTP error themselves inside a try that has
\* only an except Exception clause
ErrorsNext ==
    \/ \E accounts \in {<<"DU1">>} : ManagedAccounts(accounts)
    \/ \E i \in ErrReqs : ScannerStart(i)
    \/ \E i \in ErrReqs, n \in {0, 2} : ScannerReturn(i, n)
    \/ \E i \in ErrReqs, handler \in {"get_account_summary", "get_account_values"},
          account \in Accounts : AccountRequest(i, handler, account)
    \/ \E g \in GetPnlReqs, account \in Accounts, model_code \in ModelCodes :
          GetPnl(g, account, model_code)
    \/ \E g \in GetPnlReqs : GetPnlReturn(g)

SpecErrors == Init /\ [][ErrorsNext]_vars

\* GET /pnl requests and PnL streams side by side
PnlNext ==
    \/ \E accounts \in {<<"DU1">>} : ManagedAccounts(accounts)
    \/ \E g \in GetPnlReqs, account \in Accounts, model_code \in ModelCodes :
          GetPnl(g, account, model_code)
    \/ \E g \in GetPnlReqs : GetPnlReturn(g)
    \/ \E s \in PnlSockets, account \in PnlAccounts : PnlAccept(s, account)
    \/ \E s \in PnlSockets : PnlSubscribe(s)
    \/ \E s \in PnlSockets : PnlTeardownDisconnect(s)
    \/ \E s \in PnlSockets : PnlTeardownError(s)

SpecPnl == Init /\ [][PnlNext]_vars

\* ---- actions of get_market_data, get_market_depth, get_realtime_bars --------
\* market_data.py 182-196: get_realtime_bars builds the contract, calls
\* reqRealTimeBars without a qualification, and sleeps
RealtimeBars(d, sym) ==
    /\ dpc[d] = "idle"
    /\ dreq' = [dreq EXCEPT ![d] = [handler |-> "get_realtime_bars",
                                    symbol |-> sym, snapshot |-> FALSE]]
    /\ reqRealTimeBarsCount' = [reqRealTimeBarsCount EXCEPT ![sym] = @ + 1]
    /\ dpc' = [dpc EXCEPT ![d] = "sleeping"]
    /\ UNCHANGED <<dresp, snapshotCount, reqMktDepthCount, reqMktDataCount>>
    /\ UNCHANGED notData

\* market_data.py 219-226, 329-336: get_market_data and get_market_depth
\* build the contract and await the qualification
DataStart(d, handler, sym, snapshot) ==
    /\ dpc[d] = "idle"
    /\ handler \in {"get_market_data", "get_market_depth"}
    /\ handler = "get_market_depth" => ~snapshot
    /\ dreq' = [dreq EXCEPT ![d] = [handler |-> handler, symbol |-> sym,
                                    snapshot |-> snapshot]]
    /\ dpc' = [dpc EXCEPT ![d] = "qualifying"]
    /\ UNCHANGED <<dresp, snapshotCount, reqMktDepthCount, reqRealTimeBarsCount,
                   reqMktDataCount>>
    /\ UNCHANGED notData

\* market_data.py 226-228, 261-262, 336-338, 381-382: the qualification
\* returns no contract
DataNotQualified(d) ==
    /\ dpc[d] = "qualifying"
    /\ dresp' = [dresp EXCEPT ![d] = 404]
    /\ dpc' = [dpc EXCEPT ![d] = "done"]
    /\ UNCHANGED <<dreq, snapshotCount, reqMktDepthCount, reqRealTimeBarsCount,
                   reqMktDataCount>>
    /\ UNCHANGED notData

\* market_data.py 230-241, 340-346: the contract is qualified; the handler
\* calls reqMktData (a snapshot or a streaming request) or reqMktDepth and
\* sleeps
DataQualified(d) ==
    /\ dpc[d] = "qualifying"
    /\ LET sym == dreq[d].symbol
       IN IF dreq[d].handler = "get_market_depth"
          THEN /\ reqMktDepthCount' = [reqMktDepthCount EXCEPT ![sym] = @ + 1]
               /\ UNCHANGED <<snapshotCount, reqMktDataCount>>
          ELSE IF dreq[d].snapshot
               THEN /\ snapshotCount' = [snapshotCount EXCEPT ![sym] = @ + 1]
                    /\ UNCHANGED <<reqMktDepthCount, reqMktDataCount>>
               ELSE /\ reqMktDataCount' = [reqMktDataCount EXCEPT ![sym] = @ + 1]
                    /\ UNCHANGED <<reqMktDepthCount, snapshotCount>>
    /\ dpc' = [dpc EXCEPT ![d] = "sleeping"]
    /\ UNCHANGED <<dreq, dresp, reqRealTimeBarsCount>>
    /\ UNCHANGED notData

\* market_data.py 196-212, 241-260, 346-380: the sleep is over and the
\* handler returns what the ticker holds; it makes no further call on the
\* session
DataReturn(d) ==
    /\ dpc[d] = "sleeping"
    /\ dresp' = [dresp EXCEPT ![d] = 200]
    /\ dpc' = [dpc EXCEPT ![d] = "done"]
    /\ UNCHANGED <<dreq, snapshotCount, reqMktDepthCount, reqRealTimeBarsCount,
                   reqMktDataCount>>
    /\ UNCHANGED notData

\* the market-depth and real-time-bar requests opened with the broker and
\* not cancelled: no handler cancels one
ActiveDepth(sym) == reqMktDepthCount[sym]
ActiveRealTimeBars(sym) == reqRealTimeBarsCount[sym]

DataNext ==
    \/ \E d \in DataReqs, sym \in Symbols : RealtimeBars(d, sym)
    \/ \E d \in DataReqs, handler \in DataHandlers, sym \in Symbols,
          snapshot \in BOOLEAN : DataStart(d, handler, sym, snapshot)
    \/ \E d \in DataReqs : DataNotQualified(d)
    \/ \E d \in DataReqs : DataQualified(d)
    \/ \E d \in DataReqs : DataReturn(d)

\* the REST market-data handlers alone
SpecData == Init /\ [][DataNext]_vars

\* ---- helpers of the properties -------------------------------------------
Range(f) == {f[i] : i \in DOMAIN f}

\* the handler of the socket has ended (or rejected the connection)
Ended(ws) == pc[ws] \in {"rejected", "closed"}

\* ---- properties ------------------------------------------------------------

\* C1: in every step and for every symbol, a reqMktData call is issued
\* exactly when the symbol's sink set goes from empty to non-empty; a connect
\* to a symbol that already has a sink issues none.
C1_RequestOnlyOnFirstSink ==
    [][\A k \in Symbols :
          reqMktDataCount'[k] - reqMktDataCount[k] =
             IF Sinks(active_subscriptions, k) = {}
                /\ Sinks(active_subscriptions', k) # {}
             THEN 1 ELSE 0]_vars

\* C2: in every step and for every symbol, a cancelMktData call is issued
\* exactly when the symbol's sink set goes from non-empty to empty, and no
\* symbol ever maps to an empty sink set.
C2_CancelOnlyOnLastSink ==
    [][/\ \A k \in Symbols :
             cancelMktDataCount'[k] - cancelMktDataCount[k] =
                IF Sinks(active_subscriptions, k) # {}
                   /\ Sinks(active_subscriptions', k) = {}
                THEN 1 ELSE 0
       /\ \A k \in DOMAIN active_subscriptions' : active_subscriptions'[k] # {}]_vars

\* C2 witness: two sinks of one symbol have gone, the first without a cancel,
\* the last with the single cancel and the removal of the entry
C2_Witness ==
    \E k \in Symbols :
        /\ cancelMktDataCount[k] = 1
        /\ k \notin DOMAIN active_subscriptions
        /\ Cardinality({s \in Sockets : symbol[s] = k /\ pc[s] = "closed"}) >= 2

\* C3: a symbol has an active upstream subscription if and only if its sink
\* set is non-empty.
C3_UpstreamIffSinks ==
    \A k \in Symbols :
        (ActiveUpstream(k) > 0) <=> (Sinks(active_subscriptions, k) # {})

\* C4: once the connections set up concurrently for one new symbol are all
\* streaming (and no other connection has asked for that symbol), exactly one
\* reqMktData call has been issued for it.
C4_BurstOneRequest ==
    (/\ \A s \in BurstSockets : pc[s] = "streaming"
     /\ \A s \in Sockets \ BurstSockets : symbol[s] # BurstSymbol)
    => reqMktDataCount[BurstSymbol] = 1

\* C5: a rejected qualification leaves the registry, the upstream requests
\* and the callbacks as they were; the rejected socket is in no sink set and
\* on no updateEvent, and unsubscribing it afterwards changes nothing.
C5_RejectLeavesRegistry ==
    [][\A ws \in Sockets :
          /\ (pc[ws] = "qualifying" /\ pc'[ws] = "rejected") =>
                /\ active_subscriptions' = active_subscriptions
                /\ reqMktDataCount' = reqMktDataCount
                /\ cancelMktDataCount' = cancelMktDataCount
                /\ updateEvent' = updateEvent
          /\ pc'[ws] = "rejected" =>
                /\ \A k \in Symbols :
                      /\ ws \notin Sinks(active_subscriptions', k)
                      /\ ws \notin updateEvent'[k]
                /\ Unsubscribe(active_subscriptions', symbol'[ws], ws) =
                      [subs |-> active_subscriptions', cancel |-> FALSE]]_vars

\* C5 witness: a socket was rejected for a symbol that another socket streams
C5_Witness ==
    \E ws \in Sockets :
        /\ pc[ws] = "rejected"
        /\ symbol[ws] \in DOMAIN active_subscriptions

\* C6: unsubscribing a socket that is not in the symbol's sink set returns
\* the registry unchanged and calls no cancel; unsubscribing any socket a
\* second time changes nothing more and calls no cancel.
C6_UnsubscribeIdempotent ==
    \A k \in Symbols, ws \in Sockets :
        /\ ws \notin Sinks(active_subscriptions, k) =>
              Unsubscribe(active_subscriptions, k, ws) =
                 [subs |-> active_subscriptions, cancel |-> FALSE]
        /\ LET once == Unsubscribe(active_subscriptions, k, ws)
               twice == Unsubscribe(once.subs, k, ws)
           IN /\ twice.subs = once.subs
              /\ ~twice.cancel

\* C6 witness: one socket has been unsubscribed while its symbol keeps
\* another sink, and the last sink of another symbol can be unsubscribed
C6_Witness ==
    /\ \E ws \in Sockets :
          /\ pc[ws] = "closed"
          /\ Sinks(active_subscriptions, symbol[ws]) # {}
    /\ \E k \in DOMAIN active_subscriptions : Cardinality(active_subscriptions[k]) = 1

\* the send tasks of update number n, of symbol k, for the sockets in S
TasksFor(S, k, n) == {[ws |-> w, msg |-> Message(k, n)] : w \in S}

\* C7: an update of a symbol creates one send for each socket in the
\* symbol's sink set at that moment and for no other socket; a socket is
\* written a market-data message only from such a send, and once.
C7_DispatchToRegisteredSinks ==
    [][/\ Len(updates') > Len(updates) =>
             LET n == Len(updates')
                 k == updates'[n]
                 new == TasksFor(Sinks(active_subscriptions, k), k, n)
             IN /\ tasks' = tasks \cup new
                /\ tasks \cap new = {}
       /\ \A ws \in Sockets :
             (sent'[ws] # sent[ws] /\ pc[ws] = "streaming" /\ pc'[ws] = "streaming") =>
                \E t \in tasks :
                   /\ t.ws = ws
                   /\ t \notin tasks'
                   /\ sent'[ws] = Append(sent[ws], t.msg)
                   /\ t.msg \notin Range(sent[ws])
                   /\ t.msg.symbol = symbol[ws]]_vars

\* C7 witness: one update of a symbol with two sinks has been written to
\* both, while a socket of another symbol streams and has been written nothing
C7_Witness ==
    \E a, b, c \in Sockets :
        /\ a # b
        /\ symbol[a] = symbol[b]
        /\ sent[a] # <<>> /\ sent[a] = sent[b]
        /\ "tick" \in DOMAIN sent[a][1]
        /\ pc[c] = "streaming" /\ symbol[c] # symbol[a] /\ sent[c] = <<>>

\* C8: when a send fails, its socket is no longer in the symbol's sink set
\* and has no callback registered, and the upstream subscription is
\* cancelled if no sink remains.
C8_FailedSinkRemoved ==
    [][\A t \in failed' \ failed :
          /\ t.ws \notin Sinks(active_subscriptions', symbol[t.ws])
          /\ t.ws \notin updateEvent'[symbol[t.ws]]
          /\ Sinks(active_subscriptions', symbol[t.ws]) = {} =>
                reqMktDataCount'[symbol[t.ws]] = cancelMktDataCount'[symbol[t.ws]]]_vars

\* C9: a failing send removes only its own task: the sends of the same
\* update to the other sockets stay scheduled, nothing already written is
\* lost, and the registry, the callbacks and the upstream calls of every
\* symbol stay as they were.
C9_FailureIsolated ==
    [][\A t \in failed' \ failed :
          /\ tasks' = tasks \ {t}
          /\ sent' = sent
          /\ active_subscriptions' = active_subscriptions
          /\ updateEvent' = updateEvent
          /\ reqMktDataCount' = reqMktDataCount
          /\ cancelMktDataCount' = cancelMktDataCount]_vars

\* C9 witness: the send of an update to one socket has failed, and the same
\* update has been written to another socket
C9_Witness ==
    \E t \in failed, w \in Sockets :
        /\ w # t.ws
        /\ t.msg \in Range(sent[w])

\* C10: once every streaming connection of a symbol has ended, no upstream
\* market-data subscription of that symbol is active.
C10_NoOrphanedUpstream ==
    \A k \in Symbols :
        (\A s \in Sockets : symbol[s] = k => Ended(s)) => ActiveUpstream(k) = 0

ContractNotFound == [error |-> "Contract not found"]

\* C11: a socket that was sent the "Contract not found" error was sent it as
\* its only message (no market data before it, nothing after it), and the
\* socket is closed for writing; a rejected socket is never written again.
C11_RejectionErrorIsTerminal ==
    [][\A ws \in Sockets :
          /\ ContractNotFound \in Range(sent'[ws]) =>
                /\ sent'[ws] = <<ContractNotFound>>
                /\ ~Writable(ws)'
                /\ pc'[ws] = "rejected"
          /\ pc[ws] = "rejected" => sent'[ws] = sent[ws]
          /\ (pc[ws] = "qualifying" /\ pc'[ws] = "rejected"
              /\ client_state[ws] = "CONNECTED") =>
                sent'[ws] = <<ContractNotFound>>]_vars

\* C11 witness: a rejected socket holds the error as its only message while
\* another socket of the same symbol has been written market data
C11_Witness ==
    \E ws, w \in Sockets :
        /\ pc[ws] = "rejected"
        /\ sent[ws] = <<ContractNotFound>>
        /\ symbol[w] = symbol[ws]
        /\ sent[w] # <<>> /\ "tick" \in DOMAIN sent[w][1]

\* C12: for a malformed symbol neither a contract qualification nor a
\* market-data request is issued.
C12_MalformedKeyNoBrokerCall ==
    \A k \in MalformedSymbols : qualifyCount[k] = 0 /\ reqMktDataCount[k] = 0

C14_NoRequestDuringCancel ==
    [][\A k \in Symbols :
          cancelMktDataCount'[k] > cancelMktDataCount[k] =>
             /\ reqMktDataCount'[k] = reqMktDataCount[k]
             /\ k \notin DOMAIN active_subscriptions'
             /\ \A ws \in Sockets :
                   (symbol[ws] = k /\ pc[ws] = "qualifying") =>
                      pc'[ws] = "qualifying"]_vars

\* C14 witness: a symbol was cancelled upstream and has been requested again
\* by a connection that now streams it
C14_Witness ==
    \E k \in Symbols :
        /\ cancelMktDataCount[k] = 1
        /\ reqMktDataCount[k] = 2
        /\ Sinks(active_subscriptions, k) # {}

\* what the registry and the Broker Session hold for one symbol
KeyState(k) ==
    <<Sinks(active_subscriptions, k), updateEvent[k], reqMktDataCount[k],
      cancelMktDataCount[k]>>

\* C15: a step of a connection (set-up, rejection, teardown) changes the
\* sink set, the callbacks and the upstream calls of no symbol but its own;
\* a dispatch and a send change those of no symbol at all.
C15_OtherKeysUnchanged ==
    [][/\ \A ws \in Sockets :
             pc'[ws] # pc[ws] =>
                \A k \in AllSymbols : k # symbol'[ws] => KeyState(k)' = KeyState(k)
       /\ (updates' # updates \/ tasks' # tasks) =>
             \A k \in AllSymbols : KeyState(k)' = KeyState(k)]_vars

\* C15 witness: one symbol has lost its last sink and was cancelled while
\* another symbol still streams, untouched
C15_Witness ==
    \E a, b \in Sockets :
        /\ symbol[a] # symbol[b]
        /\ pc[a] = "closed" /\ cancelMktDataCount[symbol[a]] = 1
        /\ pc[b] = "streaming" /\ cancelMktDataCount[symbol[b]] = 0
        /\ updates # <<>>

\* C16: the on_update callback of a socket is registered exactly while the
\* socket is in its symbol's sink set, and the error callback of a
\* historical-bars request exactly while its data pull is awaited; once all
\* connections and requests have finished no callback is registered.
C16_NoLeakedHandler ==
    /\ \A k \in AllSymbols :
          /\ updateEvent[k] = Sinks(active_subscriptions, k)
          /\ \A ws \in updateEvent[k] : pc[ws] = "streaming" /\ symbol[ws] = k
    /\ errorEvent = {r \in HistReqs : hpc[r] = "pulling"}

\* C16 witness: the connections have streamed and ended, the requests have
\* ended on the success, the timeout and the error path, and no callback is
\* left
C16_Witness ==
    /\ \A ws \in HandlerSockets : pc[ws] = "closed"
    /\ \A r \in HistReqs : hpc[r] = "done" /\ hdata[r]
    /\ \E r \in HistReqs : hresp[r].detail = "Request timed out"
    /\ \E r \in HistReqs : hresp[r].detail \in {"bars", "exception"}
    /\ errorEvent = {}
    /\ \A k \in AllSymbols : updateEvent[k] = {}

\* C20: a historical-bars request whose contract the broker cannot qualify
\* is answered with status 500 and a detail, and no historical-data request
\* is issued for it.
C20_UnqualifiedAnswers500 ==
    \A r \in HistReqs :
        (hpc[r] = "done" /\ hqual[r] \in {"empty", "zero"}) =>
           /\ hresp[r].status = 500
           /\ ~hdata[r]

\* the order type needs a price the request does not carry
MissingPrice(order_req) ==
    \/ order_req.order_type = "LMT" /\ order_req.limit_price = None
    \/ order_req.order_type \in {"STP", "TRAIL"} /\ order_req.stop_price = None
    \/ order_req.order_type = "STP LMT"
       /\ (order_req.limit_price = None \/ order_req.stop_price = None)

\* C17: a place_order request whose order type lacks its required price is
\* answered with 400 in the step it arrives, and neither the qualification
\* nor placeOrder is ever called for it.
C17_MissingPriceNoBrokerCall ==
    \A q \in PlaceReqs :
        (opc[q] # "idle" /\ MissingPrice(oreq[q])) =>
           /\ opc[q] = "done"
           /\ oresp[q] = 400
           /\ ~oqualify[q]
           /\ oplaced[q] = 0

\* C17 witness: one request with a missing price was refused while another
\* request, complete, has placed its order
C17_Witness ==
    \E q, o \in PlaceReqs :
        /\ opc[q] = "done" /\ MissingPrice(oreq[q]) /\ oreq[q].order_type = "TRAIL"
        /\ oresp[o] = 200 /\ oplaced[o] # 0

\* C18: a cancel_order request whose order id matches no trade is answered
\* with 404 and calls no cancelOrder; a request whose order id matches a
\* trade calls cancelOrder once, for that order.
C18_CancelOnlyKnownOrder ==
    [][cresp' # cresp =>
          /\ Len(cresp') = Len(cresp) + 1
          /\ LET e == cresp'[Len(cresp')]
             IN IF \E i \in DOMAIN trades : trades[i].orderId = e.order_id
                THEN /\ e.status = 200
                     /\ cancelCalls' = Append(cancelCalls, e.order_id)
                ELSE /\ e.status = 404
                     /\ cancelCalls' = cancelCalls]_vars

\* C18 witness: with a trade known, one cancel named an unknown order id and
\* one the known order
C18_Witness ==
    /\ trades # <<>>
    /\ \E i, j \in DOMAIN cresp : cresp[i].status = 404 /\ cresp[j].status = 200
    /\ Len(cancelCalls) = 1

\* C19: a /pnl/single request without con_id is answered with 400 and calls
\* no reqPnLSingle, whatever its account parameter and the managed accounts.
C19_MissingConIdAnswers400 ==
    \A p \in PnlReqs :
        (ppc[p] # "idle" /\ preq[p].con_id = None) =>
           /\ presp[p] = 400
           /\ ~psingle[p]

\* C23: a request whose data pull timed out is answered with status 500,
\* with the recorded broker error as detail when the flag was set during the
\* wait and with 'Request timed out' otherwise; it is never answered with bars.
C23_TimeoutAnswers500 ==
    \A r \in HistReqs :
        houtcome[r] = "timeout" =>
           /\ hresp[r].status = 500
           /\ hresp[r].detail # "bars"
           /\ herror[r].occurred =>
                 (hresp[r].detail = "error" /\ hresp[r].code = herror[r].message)
           /\ ~herror[r].occurred => hresp[r].detail = "Request timed out"

\* C23 witness: one request timed out with a flagged error, another without
C23_Witness ==
    \E r, o \in HistReqs :
        /\ houtcome[r] = "timeout" /\ herror[r].occurred
        /\ hresp[r].code \in {200, 1100}
        /\ houtcome[o] = "timeout" /\ hresp[o].detail = "Request timed out"

StatusCodes == {2103, 2104, 2105, 2106, 2107, 2108, 2119, 2157, 2158}
\* the codes the properties of the error callback are checked for: the codes
\* the callback names, their neighbours, and the codes around 1000
CheckedCodes ==
    UNION {{c - 1, c, c + 1} : c \in StatusCodes \cup {162, 200, 366, 1000}}
        \cup {0, 504, 1100, 10000}
Flagging(code) ==
    code \notin StatusCodes /\ (code >= 1000 \/ code \in {162, 200, 366})

\* C24: the error callback sets the flag exactly for the codes that are no
\* status code and are >= 1000 or one of 162, 200, 366, and leaves its state
\* alone for every other code; a recorded error is one of the flagging codes;
\* and a request whose flag is set is answered with 500 although its data
\* pull returned bars.
C24_FlaggedCodes ==
    /\ \A code \in CheckedCodes :
          /\ error_handler(NoError, NoReqId, code).occurred <=> Flagging(code)
          /\ ~Flagging(code) =>
                \A r \in HistReqs : error_handler(herror[r], r, code) = herror[r]
    /\ \A r \in HistReqs :
          /\ herror[r].occurred => Flagging(herror[r].message)
          /\ (houtcome[r] = "returned" /\ herror[r].occurred) =>
                (hresp[r].status = 500 /\ hresp[r].code = herror[r].message)

\* C24 witness: a data pull returned bars after its callback had flagged
\* code 1100, and the request was answered with 500
C24_Witness ==
    \E r \in HistReqs :
        /\ houtcome[r] = "returned"
        /\ herror[r].message = 1100
        /\ hresp[r].status = 500

\* C25: a request is answered with the recorded broker error only if, among
\* the errors of data pulls that set its flag, there is one of its own pull.
C25_OnlyOwnErrorsFail ==
    \A r \in HistReqs :
        (hresp[r].detail = "error" /\ herror[r].reqIds \cap HistReqs # {}) =>
           r \in herror[r].reqIds

\* C22: every trade the session records was placed with a contract of
\* non-zero conId, and a place_order request whose qualification returned no
\* contract or only contracts with conId 0 is answered with 404 and has placed
\* no order; any other qualified request has placed its order with the first
\* contract of non-zero conId.
C22_PlaceOnlyQualified ==
    /\ \A i \in DOMAIN trades : trades[i].conId # 0
    /\ Len(placeCalls) = Len(trades)
    /\ \A q \in PlaceReqs :
          (opc[q] = "done" /\ oqualify[q]) =>
             IF \A i \in DOMAIN oqual[q] : oqual[q][i] = 0
             THEN oresp[q] = 404 /\ oplaced[q] = 0
             ELSE /\ oresp[q] = 200
                  /\ oplaced[q] \in DOMAIN trades
                  /\ \E i \in DOMAIN oqual[q] :
                        /\ oqual[q][i] = trades[oplaced[q]].conId
                        /\ \A j \in 1..(i - 1) : oqual[q][j] = 0

\* C22 witness: one request whose qualification returned only a contract
\* with conId 0 was refused, another was placed with the qualified contract
\* that came after an unqualified one
C22_Witness ==
    \E q, o \in PlaceReqs :
        /\ opc[q] = "done" /\ oqual[q] = <<0>> /\ oresp[q] = 404
        /\ opc[o] = "done" /\ oqual[o] = <<0, 265598>> /\ oplaced[o] # 0

\* C30: a modify_order request whose order id matches a trade is answered
\* with 200, writes exactly the supplied fields to that trade's order,
\* leaves the other fields and the other trades as they were, and calls
\* placeOrder once, for that order; a request whose order id matches no trade
\* is answered with 404, changes no trade and calls no placeOrder.
C30_ModifyOnlySupplied ==
    [][nmod' # nmod =>
          LET m == mresp'
              matches == {i \in DOMAIN trades : trades[i].orderId = m.order_id}
          IN IF matches = {}
             THEN /\ m.status = 404
                  /\ trades' = trades
                  /\ placeCalls' = placeCalls
             ELSE /\ m.status = 200
                  /\ DOMAIN trades' = DOMAIN trades
                  /\ placeCalls' = Append(placeCalls, m.order_id)
                  /\ \A i \in DOMAIN trades :
                        IF i \in matches /\ \A j \in matches : i <= j
                        THEN /\ trades'[i].orderId = trades[i].orderId
                             /\ trades'[i].conId = trades[i].conId
                             /\ trades'[i].totalQuantity =
                                   IF m.quantity = None THEN trades[i].totalQuantity
                                   ELSE m.quantity[1]
                             /\ trades'[i].lmtPrice =
                                   IF m.limit_price = None THEN trades[i].lmtPrice
                                   ELSE m.limit_price
                             /\ trades'[i].auxPrice =
                                   IF m.stop_price = None THEN trades[i].auxPrice
                                   ELSE m.stop_price
                        ELSE trades'[i] = trades[i]]_vars

\* C30 witness: with two trades known, one modification named no trade and
\* was refused, and one changed the limit price of the first trade only,
\* which was submitted a second time
C30_Witness ==
    /\ Len(trades) = 2
    /\ nmod = 2
    /\ mresp.status = 200 /\ mresp.order_id = 1
    /\ mresp.quantity = None /\ mresp.stop_price = None
    /\ trades[1].lmtPrice = <<20>> /\ trades[1].totalQuantity = 1
    /\ trades[2].lmtPrice = <<10>>
    /\ placeCalls = <<1, 2, 1>>

\* C21: a request in whose handler an HTTPException was raised deliberately
\* is answered with the status of that exception: 400 by run_scanner for an
\* empty scan, 404 by get_account_summary, get_account_values and get_pnl
\* when no account is given and the session manages none.
C21_RaisedStatusReachesClient ==
    /\ \A i \in ErrReqs : eraised[i] # 0 => eresp[i] = eraised[i]
    /\ \A g \in GetPnlReqs : graised[g] # 0 => gresp[g] = graised[g]

\* C26: in every step, a reqPnL call for a key that has an upstream PnL
\* subscription comes with a cancelPnL call for that key.
C26_NoRequestOnActiveKey ==
    [][\A k \in PnlKeys :
          (reqPnLCount'[k] > reqPnLCount[k] /\ k \in pnlActive) =>
             cancelPnLCount'[k] > cancelPnLCount[k]]_vars

\* C27: the step in which a PnL stream ends calls cancelPnL once for the key
\* the connection subscribed, (account, ""), and leaves no subscription of
\* that key when no other PnL stream of the account is open and no GET /pnl
\* request has been made.
C27_TeardownCancelsOwnSubscription ==
    [][\A s \in PnlSockets :
          (wpc[s] = "streaming" /\ wpc'[s] = "closed") =>
             LET k == <<waccount[s], "">>
             IN /\ cancelPnLCount'[k] = cancelPnLCount[k] + 1
                /\ ((\A g \in GetPnlReqs : gpc[g] = "idle")
                    /\ (\A o \in PnlSockets \ {s} :
                          ~(wpc[o] = "streaming" /\ waccount[o] = waccount[s])))
                   => k \notin pnlActive']_vars

\* C28: in every step, nothing is written to the socket of a streaming
\* connection whose teardown has run (its sink removed from the registry and
\* its callback from the ticker).
C28_NoWriteAfterTeardown ==
    [][\A ws \in Sockets :
          pc[ws] \in {"closing", "closed"} => sent'[ws] = sent[ws]]_vars

\* C29: once every REST market-data request has been answered, a symbol
\* without a registered sink has no active upstream subscription: no
\* streaming market-data request, no market-depth request and no
\* real-time-bars request.
C29_RestLeavesNoSubscription ==
    (\A d \in DataReqs : dpc[d] \in {"idle", "done"}) =>
       \A k \in Symbols :
          Sinks(active_subscriptions, k) = {} =>
             /\ ActiveUpstream(k) = 0
             /\ ActiveDepth(k) = 0
             /\ ActiveRealTimeBars(k) = 0

====
